---- MODULE Spec2Model ----
(***************************************************************************)
(* A model of AutoMouse (src/AutoMouse.py): the path planners (linear and  *)
(* Bezier + jitter), the playback loop of move_to with its cooperative     *)
(* interrupt flag, and the composed actions click, double_click, drag,     *)
(* scroll, left_down, left_up, stop and reset.                             *)
(*                                                                         *)
(* External calls (user32) are modelled by their effect on two pieces of   *)
(* environment state: the cursor position (GetCursorPos / SetCursorPos)    *)
(* and the log of calls delivered to the system (SetCursorPos, SendInput,  *)
(* mouse_event) and of the sleeps of the calling thread, in program order. *)
(*                                                                         *)
(* Real numbers are exact rationals: t = i/steps, a Bezier coordinate is   *)
(* an integer numerator over steps^3, a noise value is a numerator over    *)
(* NoiseDen, a time is a number of milliseconds over a denominator.  Where *)
(* the source computes in floats, the model gives the value the float      *)
(* computation gives: the rounding is computed (steps_of), tabulated from  *)
(* the source (perlin) or bounded (human_point).                           *)
(***************************************************************************)
EXTENDS Integers, Sequences, FiniteSets, TLC

VARIABLES
  stop_flag,   \* self._stop_flag
  cursor,      \* the system cursor position, <<x, y>>
  pc,          \* where the calling thread is
  op,          \* the public call in progress and its arguments
  ck,          \* the frame of the click() in progress
  moves,       \* the move_to frames of this call, the last one is the current
  log,         \* calls delivered to user32 and sleeps, in order
  prior,       \* what stop()/reset() did before the public call began
  stop_in_call,\* stop() has been called while the public call was running
  plan,        \* the planner's inputs and output (specification SpecPlan)
  gh,          \* what stop()/reset() did while the public call was running
  nz           \* the noise function's argument and results (SpecNoise)

vars == <<stop_flag, cursor, pc, op, ck, moves, log, prior, stop_in_call, plan,
          gh, nz>>

(***************************************************************************)
(* Bounds of the model.                                                    *)
(***************************************************************************)
\* GetSystemMetrics(0) and GetSystemMetrics(1): the size of the screen.
ScreenW == 64
ScreenH == 48
\* The planner specification draws steps from 1..MaxPlanSteps.
MaxPlanSteps == 10

(***************************************************************************)
(* Win32 constants.                                                        *)
(***************************************************************************)
MOUSEEVENTF_LEFTDOWN == 2
MOUSEEVENTF_LEFTUP == 4
MOUSEEVENTF_RIGHTDOWN == 8
MOUSEEVENTF_RIGHTUP == 16
MOUSEEVENTF_MIDDLEDOWN == 32
MOUSEEVENTF_MIDDLEUP == 64
MOUSEEVENTF_WHEEL == 2048

\* The two 16-bit halves of a ctypes.c_ulong (32 bits on Windows, the only
\* platform that has ctypes.windll): a field of that type keeps the assigned
\* integer modulo 2^32, here <<high word, low word>>.
Word == 65536

c_ulong(v) == <<(v \div Word) % Word, v % Word>>

(***************************************************************************)
(* Arithmetic helpers.                                                     *)
(***************************************************************************)
Max(a, b) == IF a >= b THEN a ELSE b

Min(a, b) == IF a <= b THEN a ELSE b

Abs(a) == IF a >= 0 THEN a ELSE -a

\* Python's int() of the real number num/den (den > 0): truncation toward 0.
\* \div is the floor division.
int(num, den) ==
  LET f == num \div den
  IN  IF num >= 0 \/ num % den = 0 THEN f ELSE f + 1

(***************************************************************************)
(* _clamp: each axis independently into [0, dimension - 1].                *)
(***************************************************************************)
clamp_to_size(x, y) ==
  <<Max(0, Min(x, ScreenW)), Max(0, Min(y, ScreenH))>>

clamp(x, y) ==
  <<Max(0, Min(x, ScreenW - 1)), Max(0, Min(y, ScreenH - 1))>>

(***************************************************************************)
(* _bezier at t = i/steps: the numerators of both coordinates over steps^3.*)
(***************************************************************************)
bezier(p0, p1, p2, p3, i, steps) ==
  LET u == steps - i
      B(a, b, c, d) == u*u*u*a + 3*u*u*i*b + 3*u*i*i*c + i*i*i*d
  IN  <<B(p0[1], p1[1], p2[1], p3[1]), B(p0[2], p1[2], p2[2], p3[2])>>

(***************************************************************************)
(* _perlin: (sin(x * 12.9898) * 43758.5453) % 1, as a numerator over       *)
(* NoiseDen, rounded down.  _human_path calls it with x = t * 100,         *)
(* t = i / steps (line 97); PerlinTable[steps][i + 1] is the value the     *)
(* source computes there in floating point, for steps = 1..60.             *)
(***************************************************************************)
NoiseDen == 1000000000

PerlinTable ==
  <<
    <<         0, 264138713 >>,
    <<         0, 302199936, 264138713 >>,
    <<         0, 437634676, 854735856, 264138713 >>,
    <<         0, 330469698, 302199936, 594892612, 264138713 >>,
    <<         0, 760377313, 596654128, 169809403, 733879441, 264138713 >>,
    <<         0, 787629651, 437634676, 302199936, 854735856, 273519326,
       264138713 >>,
    <<         0, 119988981, 221336347, 899763746, 922953452, 617782552,
       877273220, 264138713 >>,
    <<         0,  86374501, 330469698, 282605495, 302199936, 634508954,
       594892612, 356598394, 264138713 >>,
    <<         0, 342550231, 957066523, 437634676, 309707917, 204110094,
       854735856, 151635168, 446249745, 264138713 >>,
    <<         0, 971512353, 760377313, 985081986, 596654128, 302199936,
       169809403, 367850320, 733879441, 815414472, 264138713 >>,
    <<         0, 958427522,  64382477,  86168346, 641584431, 912505040,
       299637304, 468742102, 680830261, 712603045, 466573085, 264138713 >>,
    <<         0, 843377117, 787629651, 330469698, 437634676, 927903062,
       302199936, 871417056, 854735856, 594892612, 273519326, 486961383,
       264138713 >>,
    <<         0, 728589915, 654652277, 999798551,  98165719, 695103945,
       316207131, 448375770, 360010607,  28274783, 810196747, 793376433,
       372324985, 264138713 >>,
    <<         0, 126921962, 119988981, 831567447, 221336347, 675538709,
       899763746, 302199936, 922953452, 120275726, 617782552, 494481595,
       877273220,  24241905, 264138713 >>,
    <<         0, 546269447, 975461683, 760377313, 193856977, 437634676,
       596654128, 851252719, 958451211, 169809403, 854735856, 150560921,
       733879441, 910086013, 595044005, 264138713 >>,
    <<         0, 184010388,  86374501, 625888104, 330469698, 930763724,
       282605495, 594241561, 302199936, 943982525, 634508954, 209660864,
       594892612, 908226461, 356598394, 130306112, 264138713 >>,
    <<         0,  57210476,  96555744, 406647455, 867800353, 926994535,
       984877447, 916099837, 490452452, 570556404, 891135710, 253383035,
       101240436, 159062845, 292359167, 431807661, 133775875, 264138713 >>,
    <<         0, 823122780, 342550231, 787629651, 957066523,  63918179,
       437634676, 572340457, 309707917, 302199936, 204110094, 756755575,
       854735856, 454775269, 151635168, 273519326, 446249745, 456369128,
       264138713 >>,
    <<         0, 162791589, 968961873, 337799471, 312207416, 685931206,
       164551290, 191427096, 832217443, 448247257,  21820467, 852770883,
       710749758, 484570380,  52608851, 859525693, 636281267, 715432746,
        10776030, 264138713 >>,
    <<         0, 453479516, 971512353, 441816405, 760377313, 330469698,
       985081986, 575920716, 596654128, 795971495, 302199936, 872899960,
       169809403,  77527164, 367850320, 594892612, 733879441, 376357477,
       815414472, 751111112, 264138713 >>,
    <<         0, 706753704, 576124942, 119988981, 732193304, 572681475,
       221336347, 437634676, 294552653, 899763746, 129549155, 628640752,
       922953452, 356853196, 854735856, 617782552, 319729605, 990015210,
       877273220, 850099403, 315628338, 264138713 >>,
    <<         0, 562831316, 958427522, 795747421,  64382477, 584759009,
        86168346, 749080549, 641584431,  86594476, 912505040, 302199936,
       299637304,  42919118, 468742102, 508895704, 680830261, 877972248,
       712603045,  38872056, 466573085, 520527043, 264138713 >>,
    <<         0, 686001851, 197217520, 278497486, 514373655, 249918248,
       512818709, 937064365, 688632315, 393550046,  68699927,  55717116,
       958316463, 583366732, 886011327, 919114243, 787287989, 605736858,
       464124624, 395650097, 351487649, 180722390, 615882018, 264138713 >>,
    <<         0,  89648490, 843377117,  86374501, 787629651, 374441098,
       330469698, 258307733, 437634676, 282605495, 927903062, 782615691,
       302199936, 779747913, 871417056, 634508954, 854735856, 698775524,
       594892612, 935984994, 273519326, 356598394, 486961383,  52742110,
       264138713 >>,
    <<         0, 373733714, 329110966, 179043742, 926878817, 760377313,
       135763924, 161905688, 285701581, 981520601, 596654128, 694714891,
       142530499, 811998443, 474671642, 169809403,  88056116, 388069323,
       173267147, 154122820, 733879441,  94074383, 444139771, 529720516,
       927918784, 264138713 >>,
    <<         0, 577648732, 728589915, 583361439, 654652277, 251528495,
       999798551, 487941341,  98165719, 932559386, 695103945, 722514958,
       316207131, 302199936, 448375770,  26583353, 360010607, 500957211,
        28274783,  75271294, 810196747, 405881047, 793376433, 988499831,
       372324985, 942381145, 264138713 >>,
    <<         0, 446877214, 305696722, 342550231, 839285032, 720459929,
       957066523, 215966812, 182942293, 437634676, 411793137, 829498370,
       309707917, 341908358, 667765144, 204110094, 515363131, 113186669,
       854735856, 223930254, 956940713, 151635168, 135157623, 832503365,
       446249745,   5337166, 297763468, 264138713 >>,
    <<         0, 164573164, 126921962, 783054409, 119988981, 864725559,
       831567447, 330469698, 221336347, 558614841, 675538709, 227022319,
       899763746, 165104077, 302199936, 663552348, 922953452, 806666290,
       120275726, 234564203, 617782552, 594892612, 494481595, 753498562,
       877273220, 925322783,  24241905, 293390611, 264138713 >>,
    <<         0, 272197892,  82965173, 515159308, 467220452, 592569510,
       832216487, 262632720, 871974364, 344218206, 507566085, 265374167,
       763849547, 200293107, 598129676, 174304613, 664149340,  22024235,
       198594367, 195829595, 584799608,   7014064, 826638306, 164755302,
       357112192, 594330832, 370539347, 499934173, 661248753, 264138713 >>,
    <<         0, 207763170, 546269447, 971512353, 975461683, 787629651,
       760377313, 348069298, 193856977, 985081986, 437634676, 599593308,
       596654128,  84369692, 851252719, 302199936, 958451211, 598987785,
       169809403, 767066997, 854735856, 367850320, 150560921, 949554405,
       733879441, 273519326, 910086013, 815414472, 595044005,  79728580,
       264138713 >>,
    <<         0, 925124995, 460987230, 319482743, 400184706, 649708886,
       904144788, 712102379, 672575910,  26406648, 461753139, 697164431,
       973157215,  99872921,  22888208,  52952888, 924245723,  76540424,
       603174675,  77187421, 407588539, 997129409, 543331002, 683231286,
       651081360, 147717521, 683227391,  31200444, 554196474, 294506095,
       660413807, 264138713 >>,
    <<         0, 380764879, 184010388, 239793164,  86374501, 158275192,
       625888104, 762767242, 330469698,  37712002, 930763724, 782970761,
       282605495, 503263070, 594241561, 181404523, 302199936, 717701633,
       943982525, 990615837, 634508954, 294743144, 209660864,  31440344,
       594892612, 913287960, 908226461, 250673901, 356598394, 114535397,
       130306112, 247043177, 264138713 >>,
    <<         0, 951186673, 255315412, 958427522, 241542821, 341491403,
        64382477, 713395257, 322444748,  86168346, 353217303, 437634676,
       641584431, 550381664, 960451684, 912505040, 632032615, 661330417,
       299637304, 180021196, 700852971, 468742102, 854735856, 810888862,
       680830261, 914810613, 563738585, 712603045, 760101833, 990391234,
       466573085, 672915521, 288171147, 264138713 >>,
    <<         0, 971802184,  57210476, 828241879,  96555744, 276111488,
       406647455, 801064186, 867800353, 930721267, 926994535, 179037368,
       984877447, 773760580, 916099837, 752844516, 490452452, 302199936,
       570556404, 451078344, 891135710, 774825453, 253383035, 168774236,
       101240436, 902293716, 159062845, 864368816, 292359167, 326549019,
       431807661, 790826907, 133775875,  87384724, 264138713 >>,
    <<         0,  56524703, 731423998, 333203574, 467095883, 119988981,
        99912519, 760377313, 880594083, 963519319, 221336347, 201897250,
       948477033, 637215410, 596654128, 899763746, 208817322, 301712405,
       632546987, 243276721, 922953452, 169809403, 115873524, 409363787,
       341532232, 617782552, 782876917, 494254394, 733879441, 188178198,
       877273220, 648080262, 866489423, 419733172, 876061176, 264138713 >>,
    <<         0, 817593403, 823122780, 843377117, 342550231, 831249806,
       787629651, 140494409, 957066523, 330469698,  63918179, 521867647,
       437634676, 778923124, 572340457, 927903062, 309707917, 701979707,
       302199936, 319105618, 204110094, 871417056, 756755575, 813547652,
       854735856, 805469557, 454775269, 594892612, 151635168, 402235566,
       273519326, 792541240, 446249745, 486961383, 456369128, 569477079,
       264138713 >>,
    <<         0, 162486335, 857939002, 139439771, 642528931, 854208463,
       735490072, 661193104,  75783536, 575832506, 587530790, 970180635,
       733758298, 319671088, 340104546, 441662962, 645066179, 762645446,
        19672972, 948106248,  91109717, 219554592, 691475788, 246417389,
       202711801, 402689433, 748633139, 536989158, 520172765, 661338106,
       733395122, 400466717, 384084496, 676131303, 201168321, 516003055,
       427824368, 264138713 >>,
    <<         0, 105259543, 162791589, 732726034, 968961873,  47678010,
       337799471, 801672210, 312207416, 842736484, 685931206, 560512040,
       164551290, 382971900, 191427096, 839835291, 832217443, 301270219,
       448247257, 302199936,  21820467, 285323487, 852770883, 422363065,
       710749758, 120298065, 484570380, 885894587,  52608851, 737352855,
       859525693,  28931762, 636281267, 861772996, 715432746, 195395095,
        10776030, 369888706, 264138713 >>,
    <<         0, 871287685, 553419299, 728589915, 226163504, 411280814,
       654652277, 683983215, 265967772, 999798551, 811784538,  98931720,
        98165719, 437634676, 824848380, 695103945, 377004524,  45136006,
       316207131, 626862872, 706460011, 448375770, 913278169, 294555133,
       360010607, 341061179, 854735856,  28274783, 929209700, 457395587,
       810196747, 322641611,  98682852, 793376433, 720487582, 185159649,
       372324985, 768170547, 775590610, 264138713 >>,
    <<         0, 451132818, 453479516, 909673131, 971512353,  86374501,
       441816405, 359177659, 760377313, 682343689, 330469698,  27831380,
       985081986, 239467823, 575920716, 282605495, 596654128, 354153402,
       795971495, 550728693, 302199936, 487731366, 872899960, 290029550,
       169809403, 634508954,  77527164, 913839212, 367850320, 344788842,
       594892612, 736875013, 733879441, 952481741, 376357477, 356598394,
       815414472,  25893076, 751111112, 708281977, 264138713 >>,
    <<         0, 629409455, 510784326, 354411704, 730120089, 640765083,
        50061139, 926767272, 319307838,  31902589, 560559568, 988077753,
       458023855, 583470798, 645158256, 660432751, 342839579, 626912515,
       827923024, 684812400, 554245985, 953915792, 569415566, 817746936,
       173898349, 777572836, 393702789, 634190258, 471085086, 474492000,
       863419594, 318306038, 509316852, 373721358, 252514086, 994918471,
       988992031, 717255190, 822851015, 776914149,  54156912, 264138713 >>,
    <<         0, 876846274, 706753704, 126921962, 576124942, 520397591,
       119988981, 787629651, 732193304, 831567447, 572681475, 775544102,
       221336347, 274582406, 437634676, 675538709, 294552653, 562921447,
       899763746,  42655185, 129549155, 302199936, 628640752,   4280495,
       922953452, 758234592, 356853196, 120275726, 854735856, 616735460,
       617782552, 516416754, 319729605, 494481595, 990015210, 273519326,
       877273220, 297048558, 850099403,  24241905, 315628338, 524367242,
       264138713 >>,
    <<         0, 941139797, 175969619, 182145163, 628182947, 133621016,
       672492831, 220792014, 459462159, 195575332,  72511656, 246290285,
        71626793, 555272376, 977654063, 628911622, 750682558, 792271018,
       871520647, 929019800, 186127566, 726281045,  68761452, 232121617,
       547810520, 526048269, 716802389, 252550557, 959693269, 427826126,
       915591018, 276990009, 316025436, 547470299, 744734705, 859209674,
       117004000, 662024581, 205694552, 356385442, 433475184, 932015124,
       127310457, 264138713 >>,
    <<         0, 341649717, 562831316, 188639672, 958427522, 506608031,
       795747421, 862491143,  64382477, 878065933, 584759009, 330469698,
        86168346, 813104585, 749080549, 134728211, 641584431, 318169090,
        86594476, 395392742, 912505040, 782661147, 302199936, 405941822,
       299637304, 716328280,  42919118, 565379697, 468742102, 709479113,
       508895704,  97965827, 680830261, 594892612, 877972248, 915464274,
       712603045, 238503044,  38872056, 793499021, 466573085, 476872286,
       520527043,  46626549, 264138713 >>,
    <<         0, 832956895,  77790876, 546269447, 509837775, 342550231,
       975461683, 934310984, 746012073, 760377313, 957066523, 897192399,
       193856977, 425778386, 113551634, 437634676, 493577706, 380207921,
       596654128, 903171390, 309707917, 851252719,  25964557, 971674619,
       958451211, 204110094, 880986759, 169809403, 125996392, 521345967,
       854735856,  22604733, 910576609, 150560921, 628213174, 151635168,
       733879441, 264497516, 678360439, 910086013, 446249745, 482520027,
       595044005, 117000141, 818165403, 264138713 >>,
    <<         0, 147017693, 686001851, 523418674, 197217520, 187123641,
       278497486, 463488398, 514373655, 877884894, 249918248, 234284199,
       512818709, 692424745, 937064365, 843173880, 688632315, 781700105,
       393550046, 178084328,  68699927, 345011664,  55717116, 302199936,
       958316463, 837237744, 583366732, 562523137, 886011327, 968013786,
       919114243, 469520692, 787287989, 452300292, 605736858, 309723508,
       464124624, 476825439, 395650097, 458565257, 351487649, 852652853,
       180722390, 366826293, 615882018, 830492344, 264138713 >>,
    <<         0,  45708982, 457295776, 132452173, 907521470, 860584372,
       890947460, 382272810, 310871165, 558835640, 673383782, 289736626,
       451456827, 115252195, 430868730, 385720012, 978946038, 357562630,
       694557839, 982905610, 935136431, 774523250, 675893760, 307517860,
       615092004, 244529080, 575113847, 863388940, 320542878, 672743740,
       217301981, 365544428, 257864702, 205459571, 450746830, 732554794,
       220162703,  77455463, 537071121, 198041190, 640310776, 306029265,
       420251970, 990547037, 122180422, 756792859, 885955646, 264138713 >>,
    <<         0, 857090234,  89648490, 184010388, 843377117,  79180417,
        86374501, 365072515, 787629651, 625888104, 374441098, 104239501,
       330469698, 439048199, 258307733, 930763724, 437634676, 278936133,
       282605495, 789639686, 927903062, 594241561, 782615691, 502480040,
       302199936,  91641524, 779747913, 943982525, 871417056, 507317253,
       634508954,  32414862, 854735856, 209660864, 698775524, 978878250,
       594892612, 365960517, 935984994, 908226461, 273519326, 176893146,
       356598394, 161270708, 486961383, 130306112,  52742110, 555896007,
       264138713 >>,
    <<         0, 854483190, 580784611,  12964622, 488195960, 293557355,
       659408167, 119988981, 977840753, 718098127, 538869234, 343010782,
        20516691,  57034173, 221336347,  38824451, 640638147,  81480386,
       843906076, 363210690, 743788607, 899763746, 133527930, 255396367,
       861901589, 579963183, 696117795,  94960387, 922953452,  31112273,
       839281007, 851588890, 541056354, 684196974, 914403143, 617782552,
         7902409, 181711181, 482742527, 682595080, 326030536,  84099070,
       877273220, 706569221, 784999457, 840712825, 537089224, 989063537,
       627052025, 264138713 >>,
    <<         0,  57218169, 373733714, 626086772, 329110966, 971512353,
       179043742, 816025194, 926878817, 644186251, 760377313, 660876430,
       135763924, 495323957, 161905688, 985081986, 285701581, 200597858,
       981520601, 470276628, 596654128, 453082106, 694714891, 283190469,
       142530499, 302199936, 811998443, 404643772, 474671642, 309341684,
       169809403, 810896947,  88056116, 597618697, 388069323, 367850320,
       173267147, 190268749, 154122820, 184161537, 733879441,  89532259,
        94074383, 484809726, 444139771, 815414472, 529720516, 780942079,
       927918784,  55772862, 264138713 >>,
    <<         0, 866334395, 512527963,  57210476, 503281852,  42334527,
        96555744,  84638010, 810110566, 406647455, 141637306, 358453887,
       867800353, 837439555, 594215972, 926994535, 895476391, 437634676,
       984877447, 638018882, 979518203, 916099837, 476051553, 393003249,
       490452452, 979743325, 223524458, 570556404, 740444657, 153201713,
       891135710, 165221892, 988408379, 253383035, 854735856, 399285418,
       101240436, 444466175, 903638985, 159062845, 364256661, 455471971,
       292359167, 386019160, 657181816, 431807661, 960979667, 347966874,
       133775875, 327804522, 973595945, 264138713 >>,
    <<         0, 858940360, 577648732, 451320713, 728589915, 292790813,
       583361439, 828709829, 654652277, 123830306, 251528495,  32278208,
       999798551, 330469698, 487941341, 393942214,  98165719, 908544357,
       932559386, 970709558, 695103945,  39538347, 722514958, 821585299,
       316207131, 517035594, 302199936,  85588783, 448375770, 372819128,
        26583353,  56244354, 360010607, 321758119, 500957211, 785674739,
        28274783, 195425369,  75271294, 594892612, 810196747, 637981754,
       405881047, 300119211, 793376433, 135519323, 988499831, 283383904,
       372324985, 541464745, 942381145, 990007451, 264138713 >>,
    <<         0, 694757213, 256417127, 196841590, 641134005, 225830787,
       532916900, 412186309, 423935192, 255726448,   4141355, 512687347,
        12097965, 549019292, 434636536, 853988514, 620979500, 661522886,
       741490823, 865146823, 656458760, 606650899, 364401182, 835133548,
       259496350,   6961914, 270488701, 124328165, 602783652, 785140933,
       614471299, 275149066, 646557340,  50742853, 398736341,  19062241,
       235020221, 560086264, 110697217, 799788314, 554364077, 714544138,
         7312140, 994040058, 999448226, 201287012, 366231972, 910827909,
       566390750, 832515345, 180271101,  27225603, 414900907, 264138713 >>,
    <<         0, 330292623, 446877214, 823122780, 305696722, 899646855,
       342550231, 834435059, 839285032, 787629651, 720459929, 134260834,
       957066523, 696233848, 215966812,  63918179, 182942293,  40960026,
       437634676, 392961630, 411793137, 572340457, 829498370, 631710689,
       309707917, 893940539, 341908358, 302199936, 667765144, 181949117,
       204110094, 330683917, 515363131, 756755575, 113186669, 346682595,
       854735856, 249863589, 223930254, 454775269, 956940713, 734634021,
       151635168, 407645378, 135157623, 273519326, 832503365, 219219238,
       446249745,  12935748,   5337166, 456369128, 297763468, 273853741,
       264138713 >>,
    <<         0, 740158100, 303616437, 254230078, 521947801, 958427522,
       634805461, 134193797, 623795884, 410379459,  64382477, 760377313,
       881797151,  34742586, 346892348,  86168346, 671292544, 904418623,
       842376938, 520479826, 641584431, 150506992, 596654128, 890611383,
       844494837, 912505040, 217589212, 802903627, 664606435, 421812035,
       299637304, 378077999, 908015258, 169809403, 922697040, 468742102,
       647247590,   8099627, 498911467, 542040254, 680830261, 982119176,
       975036468, 427084918, 733879441, 712603045, 131602532,  83789313,
       787663125, 211610937, 466573085, 449173616, 168385400, 147433999,
       923161988, 264138713 >>,
    <<         0, 761961317, 164573164, 448854345, 126921962,  31906772,
       783054409,  86374501, 119988981, 853524967, 864725559,  23200174,
       831567447, 723981734, 330469698, 843365057, 221336347, 193669090,
       558614841,  39657578, 675538709, 282605495, 227022319, 990880452,
       899763746, 196571436, 165104077, 467776562, 302199936, 798686418,
       663552348, 887463586, 922953452, 954666811, 806666290, 634508954,
       120275726, 541161313, 234564203,  33323467, 617782552, 944557415,
       594892612, 690280630, 494481595, 800741048, 753498562,  15138327,
       877273220, 356598394, 925322783,   4241081,  24241905,  77477579,
       293390611,  85366824, 264138713 >>,
    <<         0, 364700273, 704545552, 162791589, 686412490, 172369909,
       968961873, 764843693,  60411573, 337799471, 964025742, 404603798,
       312207416, 528681539, 937195065, 685931206, 671182971, 585141202,
       164551290, 437634676, 471855764, 191427096, 617798592, 908015984,
       832217443,  35352717, 101637179, 448247257, 773347908,  83667359,
        21820467, 455780245, 437958614, 852770883, 932400488, 296916011,
       710749758,   9743276, 854735856, 484570380, 713340447, 213282182,
        52608851, 914066167, 234437121, 859525693, 661015404, 874284041,
       636281267, 120500048, 930861117, 715432746, 336942236, 771345841,
        10776030, 805815952, 342448847, 264138713 >>,
    <<         0, 966649539, 272197892, 412517975,  82965173, 703237851,
       515159308, 180947819, 467220452, 806379878, 592569510, 185413587,
       832216487, 960919011, 262632720, 765414978, 871974364, 818440043,
       344218206, 643105015, 507566085,  20995021, 265374167, 267116949,
       763849547, 218422979, 200293107, 406651114, 598129676, 302199936,
       174304613, 441286343, 664149340, 656316282,  22024235, 237270140,
       198594367, 800145974, 195829595, 937682491, 584799608, 679186264,
         7014064,  21161321, 826638306, 993118176, 164755302, 807595023,
       357112192, 656475305, 594330832,  50096160, 370539347, 241235622,
       499934173, 483663699, 661248753, 724391107, 264138713 >>,
    <<         0, 958049655, 361714343, 762426182, 948746605, 224146175,
         1386208,  89830761, 789826762,  68757197, 629021232, 818056926,
       893421046, 928048849,  31560945, 907745786, 580451792, 170571773,
       179743962,  20327147, 585624638, 637437841, 684413003,  65524596,
       505817986, 198326775, 235824317, 767014814, 229173407, 327924157,
        21406657, 250742421, 340440095, 707180529, 117640219, 660157048,
       498372365, 853523916, 851994295, 802360086, 781269036, 783858284,
       131172585, 828828523, 997073648, 713840404, 732264250, 954024542,
       954821597, 796551811, 553783468, 214807310, 694621149, 903274148,
       823995618, 273140294, 673784762, 448639920, 264371131, 264138713 >>,
    <<         0,  28001160, 207763170, 453479516, 546269447, 843377117,
       971512353, 537305466, 975461683, 441816405, 787629651, 559625164,
       760377313, 457955915, 348069298, 330469698, 193856977, 159893676,
       985081986, 558370237, 437634676, 575920716, 599593308, 545071203,
       596654128, 927903062,  84369692, 795971495, 851252719, 213826405,
       302199936, 765249425, 958451211, 872899960, 598987785, 871417056,
       169809403, 370469351, 767066997,  77527164, 854735856,  61298392,
       367850320, 802754719, 150560921, 594892612, 949554405, 539503251,
       733879441, 897359610, 273519326, 376357477, 910086013,   4165514,
       815414472, 486961383, 595044005, 751111112,  79728580, 955225602,
       264138713 >>
  >>

\* _perlin(t * 100) for t = i / steps
perlin(i, steps) == PerlinTable[steps][i + 1]

\* the noise of waypoint i as a pair <<lo, hi>> of numerators over NoiseDen:
\* the float lies in [lo, hi] / NoiseDen.  At i = 0 the argument is 0.0 and
\* sin(0.0) * 43758.5453 % 1 is exactly 0.0
noise_of(i, steps) ==
  IF i = 0 THEN <<0, 0>> ELSE <<perlin(i, steps), perlin(i, steps) + 1>>

(***************************************************************************)
(* The float arithmetic of _bezier and of x += jitter * 2 is modelled by   *)
(* the exact value and a bound on its rounding error: the float x lies in  *)
(* the interval from (exact value at noise lo) - F to (exact value at      *)
(* noise hi) + F, F = 1 / NoiseDen, and int(x) is one of the truncations   *)
(* of the numbers of the interval; where the interval holds no whole       *)
(* number that is exactly one value.  F is 0 where every float operation   *)
(* is exact: t = i / steps is a binary fraction and so is the noise.       *)
(*                                                                         *)
(* A number is kept as <<whole, units, sub>>: whole + (units + s)/NoiseDen *)
(* with 0 <= units < NoiseDen, s = 0 when sub is FALSE and 0 < s < 1 when  *)
(* it is TRUE.                                                             *)
(***************************************************************************)
\* i / steps is k / 2^e for some e (steps up to 64: e <= 6)
IsBinaryFraction(i, steps) == \E e \in 0..6 : (i * (2 ^ e)) % steps = 0

\* noise / NoiseDen is k / 2^e: NoiseDen = 2^9 * 5^9
IsBinaryNoise(noise) == noise[1] = noise[2] /\ noise[1] % 1953125 = 0

\* carry the units into the whole part
Carry(whole, units, sub) ==
  <<whole + (units \div NoiseDen), units % NoiseDen, sub>>

\* Python's int() of the number v = <<whole, units, sub>>
Trunc(v) ==
  IF v[1] >= 0 \/ (v[2] = 0 /\ ~v[3]) THEN v[1] ELSE v[1] + 1

\* One coordinate.  n / D is the Bezier value (D = steps^3); jitter * 2 is
\* (noise * 2 - centre) * 2, centre = 1 in the source; F is the rounding
\* bound in units of 1 / NoiseDen.  The result is the set of the values
\* int(x) can take.
human_coord(n, D, noise, centre, F) ==
  LET q  == n \div D
      r  == n % D
      \* r / D = (R + r3 / D) / NoiseDen, by long division in base 1000
      b1 == (r * 1000) \div D
      r1 == (r * 1000) % D
      b2 == (r1 * 1000) \div D
      r2 == (r1 * 1000) % D
      b3 == (r2 * 1000) \div D
      r3 == (r2 * 1000) % D
      R  == b1 * 1000000 + b2 * 1000 + b3
      \* 4 * k / NoiseDen - 2 * centre, whole part and units
      Q4 == NoiseDen \div 4
      jw(k) == (k \div Q4) - 2 * centre
      ju(k) == 4 * (k % Q4)
      lo == Carry(q + jw(noise[1]), R + ju(noise[1]) - F, r3 > 0)
      hi == Carry(q + jw(noise[2]), R + ju(noise[2]) + F, r3 > 0)
  IN  Trunc(lo)..Trunc(hi)

(***************************************************************************)
(* One waypoint of _human_path: Bezier through start, cp1, cp2, end at     *)
(* t = i/steps, both coordinates shifted by jitter * 2 where               *)
(* jitter = noise * 2 - 1, then int().  noise is a pair <<lo, hi>> of      *)
(* numerators over NoiseDen.  The result is the set of the points the      *)
(* float computation can give: one point, except where a coordinate is     *)
(* within 1 / NoiseDen of a whole number before int().                     *)
(***************************************************************************)
human_point(start, end, steps, offset, i, noise) ==
  LET mid == <<(start[1] + end[1]) \div 2, (start[2] + end[2]) \div 2>>
      cp1 == <<mid[1] + offset, mid[2] + offset>>
      cp2 == <<mid[1] - offset, mid[2] - offset>>
      b   == bezier(start, cp1, cp2, end, i, steps)
      D   == steps * steps * steps
      F   == IF IsBinaryFraction(i, steps) /\ IsBinaryNoise(noise) THEN 0 ELSE 1
  IN  human_coord(b[1], D, noise, 1, F) \X human_coord(b[2], D, noise, 1, F)

\* the first k waypoints of _human_path: the set of the lists the loop of
\* lines 93-100 can have built after k iterations
RECURSIVE human_prefix(_, _, _, _, _)
human_prefix(start, end, steps, offset, k) ==
  IF k = 0 THEN {<<>>}
  ELSE {Append(p, w) :
          p \in human_prefix(start, end, steps, offset, k - 1),
          w \in human_point(start, end, steps, offset, k - 1,
                            noise_of(k - 1, steps))}

\* _human_path: the steps+1 waypoints, the noise of waypoint i being
\* _perlin(t * 100); the set of the paths the float computation can give
human_path(start, end, steps, offset) ==
  human_prefix(start, end, steps, offset, steps + 1)

\* the linear path over range(steps): the last waypoint missing
linear_path_short(start, end, steps) ==
  [k \in 1..steps |->
     <<int(start[1] * steps + (end[1] - start[1]) * (k - 1), steps),
       int(start[2] * steps + (end[2] - start[2]) * (k - 1), steps)>>]

\* the linear path one step ahead: (i + 1) / steps in place of i / steps
linear_path_ahead(start, end, steps) ==
  [k \in 1..(steps + 1) |->
     <<int(start[1] * steps + (end[1] - start[1]) * k, steps),
       int(start[2] * steps + (end[2] - start[2]) * k, steps)>>]

(***************************************************************************)
(* The list comprehension of move_to for human=False.                      *)
(***************************************************************************)
linear_path(start, end, steps) ==
  [k \in 1..(steps + 1) |->
     <<int(start[1] * steps + (end[1] - start[1]) * (k - 1), steps),
       int(start[2] * steps + (end[2] - start[2]) * (k - 1), steps)>>]

(***************************************************************************)
(* steps = max(1, int(duration * fps)) (line 108).  duration is the float  *)
(* nearest to durMs / 1000 and the product is rounded to a float before    *)
(* int(), so a product that is a whole number n in exact arithmetic can    *)
(* come out just below n (0.29 * 100 = 28.999999999999996).  The rounding  *)
(* is computed here: durations 1 ms .. 2047 s, products below 2^30.        *)
(***************************************************************************)
\* 2^k mod 1000
RECURSIVE pow2mod(_)
pow2mod(k) == IF k = 0 THEN 1 ELSE (2 * pow2mod(k - 1)) % 1000

\* the e with 2^e <= durMs / 1000 < 2^(e + 1)
binade(durMs) ==
  IF durMs >= 1000
  THEN CHOOSE e \in 0..10 : 1000 * (2 ^ e) <= durMs /\ durMs < 1000 * (2 ^ (e + 1))
  ELSE -(CHOOSE m \in 1..10 : 1000 <= durMs * (2 ^ m) /\ durMs * (2 ^ m) < 2000)

\* the number of binary digits of n - 1 (n >= 1): the least b with n <= 2^b
bits_below(n) == CHOOSE b \in 0..30 : n <= 2 ^ b /\ (b = 0 \/ 2 ^ (b - 1) < n)

\* duration * fps, a whole number n >= 1 in exact arithmetic, is a float
\* below n.  With k = 52 - binade, the float duration is M / 2^k where
\* 1000 * M = durMs * 2^k + c, -500 < c < 500; the exact product of the
\* floats is n * 2^k + s, s = c * fps / 1000, and it is rounded to n * 2^k
\* unless it is more than half a spacing g below, g = 2^(bits_below(n) + k - 53)
falls_short(durMs, fps) ==
  LET e   == binade(durMs)
      rem == ((durMs % 1000) * pow2mod(52 - e)) % 1000
      c   == IF rem < 500 THEN -rem ELSE 1000 - rem
      s   == (c * fps) \div 1000
      n   == (durMs * fps) \div 1000
      g   == 2 ^ (bits_below(n) - 1 - e)
  IN  s < 0 /\ 2 * (-s) > g

\* steps = max(1, int(duration * fps)) with one step more
steps_of_one_more(durMs, fps) ==
  LET p == durMs * fps
  IN  IF p < 1000 THEN 2
      ELSE IF p % 1000 # 0 THEN (p \div 1000) + 1
      ELSE IF falls_short(durMs, fps) THEN p \div 1000
      ELSE (p \div 1000) + 1

\* steps = max(1, int(duration * fps)), the duration in milliseconds
steps_of(durMs, fps) ==
  LET p == durMs * fps
  IN  IF p < 1000 THEN 1
      ELSE IF p % 1000 # 0 THEN p \div 1000
      ELSE IF falls_short(durMs, fps) THEN (p \div 1000) - 1
      ELSE p \div 1000

(***************************************************************************)
(* The inputs the calls are drawn from.                                    *)
(***************************************************************************)
Buttons == {"left", "right", "middle"}

\* "x1" stands for any string that is no key of the button table
ButtonArgs == Buttons \cup {"x1"}

\* the table of click() and drag(): button |-> <<down flag, up flag>>
ButtonMap(b) ==
  CASE b = "left"   -> <<MOUSEEVENTF_LEFTDOWN, MOUSEEVENTF_LEFTUP>>
    [] b = "right"  -> <<MOUSEEVENTF_RIGHTDOWN, MOUSEEVENTF_RIGHTUP>>
    [] b = "middle" -> <<MOUSEEVENTF_MIDDLEDOWN, MOUSEEVENTF_MIDDLEUP>>

DownFlags == {MOUSEEVENTF_LEFTDOWN, MOUSEEVENTF_RIGHTDOWN, MOUSEEVENTF_MIDDLEDOWN}

UpFlags == {MOUSEEVENTF_LEFTUP, MOUSEEVENTF_RIGHTUP, MOUSEEVENTF_MIDDLEUP}

\* where GetCursorPos finds the cursor when the call begins
Starts == {<<0, 0>>, <<50, 30>>}

\* targets; the second lies outside the screen
Points == {<<10, 10>>, <<70, -5>>}

\* an Optional[int] is <<>> (None) or <<v>>
None == <<>>

\* the (x, y) arguments of click and double_click
ClickArgs ==
  {<<None, None>>, <<(<<10>>), None>>, <<(<<70>>), (<<-5>>)>>}

\* values of random.randint(-30, 30)
Offsets == {-30, 17}

\* durations in milliseconds, and frame rates
MoveDurs == {0, 100, 500}

DragDurs == {50}

\* the first point of a drag
DragFrom == {<<10, 10>>}

FpsArgs == {-10, 0, 60}

\* values of random.uniform(0.01, 0.05) and random.uniform(0.05, 0.15), in ms
ClickSleeps == {10, 50}

DoubleSleeps == {50, 150}

ScrollArgs == {-2, -1, 0, 1, 3}

(***************************************************************************)
(* Log entries.                                                            *)
(***************************************************************************)
\* self.user32.SetCursorPos(x, y)
SetCursorPos(x, y) == [call |-> "SetCursorPos", a |-> x, b |-> y, c |-> 0]

\* self.user32.SendInput with dwFlags = flags and mouseData = data (a
\* c_ulong, <<high, low>>); dx, dy and time are always 0
SendInput(flags, data) ==
  [call |-> "SendInput", a |-> flags, b |-> data[1], c |-> data[2]]

\* self.user32.mouse_event(flags, 0, 0, 0, 0)
mouse_event(flags) == [call |-> "mouse_event", a |-> flags, b |-> 0, c |-> 0]

\* time.sleep(num/den milliseconds)
sleep(num, den) == [call |-> "sleep", a |-> num, b |-> den, c |-> 0]

\* _send_input(flags, data=data): the structure field mouseData is a c_ulong
send_input(flags, data) == SendInput(flags, c_ulong(data))

(***************************************************************************)
(* Frames.                                                                 *)
(***************************************************************************)
Op(name, x, y, x2, y2, dur, human, fps, button, clicks) ==
  [name |-> name, x |-> x, y |-> y, x2 |-> x2, y2 |-> y2, dur |-> dur,
   human |-> human, fps |-> fps, button |-> button, clicks |-> clicks]

NoOp == Op("none", None, None, None, None, 0, FALSE, 0, "left", 0)

NoClick == [x |-> None, y |-> None, button |-> "left", ret |-> "done"]

\* the locals of move_to(x, y, duration, human, fps) after its planning
\* (lines 106-120): start is read from GetCursorPos, offset is the value
\* random.randint returns inside _human_path; i is the 1-based index of the
\* next waypoint of the for loop; brk: the loop left by break; fin: returned.
\* The set of the frames the planning can give (one for each path).
NewMove(x, y, durMs, human, fps, offset, ret) ==
  LET start == cursor
      end   == <<x, y>>
      steps == steps_of(durMs, fps)
      paths == IF human THEN human_path(start, end, steps, offset)
                        ELSE {linear_path(start, end, steps)}
  IN  {[path  |-> p,
        start |-> start, end |-> end, steps |-> steps, human |-> human,
        num   |-> durMs, den |-> steps,
        i     |-> 1, brk |-> FALSE, fin |-> FALSE, ret |-> ret] : p \in paths}

Cur == moves[Len(moves)]

SetCur(m) == [moves EXCEPT ![Len(moves)] = m]

(***************************************************************************)
(* Initial state: a controller just constructed (the flag is False), the   *)
(* cursor wherever the system has it.                                      *)
(***************************************************************************)
\* gh.resets: reset() has been called while the public call was running;
\* gh.since: the number of position sets made since stop() was called while
\* the public call was running, -1 when it was not or reset() came after it
NoFlagCalls == [resets |-> FALSE, since |-> -1]

InCall == pc \notin {"idle", "done", "KeyError", "off"}

NoNoise == [phase |-> "off", arg |-> <<"table", 0, 0>>, v1 |-> 0, v2 |-> 0]

NoPlan == [phase |-> "off", start |-> <<0, 0>>, end |-> <<0, 0>>, steps |-> 1,
           human |-> FALSE, offset |-> 0, i |-> 0, noise |-> 0,
           path |-> <<>>, point |-> <<0, 0>>]

Init ==
  /\ stop_flag = FALSE
  /\ cursor \in Starts
  /\ pc = "idle"
  /\ op = NoOp
  /\ ck = NoClick
  /\ moves = <<>>
  /\ log = <<>>
  /\ prior = "none"
  /\ stop_in_call = FALSE
  /\ plan = NoPlan
  /\ gh = NoFlagCalls
  /\ nz = NoNoise

(***************************************************************************)
(* stop() and reset(), callable from any thread at any time (pc = "off"    *)
(* only in the planner specification, which has no controller).            *)
(***************************************************************************)
\* prior: "none" until the first stop(); "stop" when the last of them was a
\* stop(); "stop_reset" when a reset() has followed a stop()
stop ==
  /\ pc # "off"
  /\ stop_flag' = TRUE
  /\ prior' = IF pc = "idle" THEN "stop" ELSE prior
  /\ stop_in_call' = (stop_in_call \/ pc \notin {"idle", "done", "KeyError"})
  /\ gh' = IF InCall /\ gh.since < 0 THEN [gh EXCEPT !.since = 0] ELSE gh
  /\ UNCHANGED <<cursor, pc, op, ck, moves, log, plan, nz>>

\* reset that leaves the flag as it is
reset_keeps_flag ==
  /\ pc # "off"
  /\ stop_flag' = stop_flag
  /\ prior' = IF pc = "idle" /\ prior = "stop" THEN "stop_reset" ELSE prior
  /\ gh' = IF InCall THEN [resets |-> TRUE, since |-> -1] ELSE gh
  /\ UNCHANGED <<cursor, pc, op, ck, moves, log, stop_in_call, plan, nz>>

reset ==
  /\ pc # "off"
  /\ stop_flag' = FALSE
  /\ prior' = IF pc = "idle" /\ prior = "stop" THEN "stop_reset" ELSE prior
  /\ gh' = IF InCall THEN [resets |-> TRUE, since |-> -1] ELSE gh
  /\ UNCHANGED <<cursor, pc, op, ck, moves, log, stop_in_call, plan, nz>>

(***************************************************************************)
(* move_to: the planning (lines 106-120) is one step, then the loop of     *)
(* lines 122-126 one step per line.                                        *)
(***************************************************************************)
move_to(x, y, durMs, human, fps, offset) ==
  /\ pc = "idle"
  /\ op' = Op("move_to", <<x>>, <<y>>, None, None, durMs, human, fps, "left", 0)
  /\ moves' \in {<<m>> : m \in NewMove(x, y, durMs, human, fps, offset, "done")}
  /\ pc' = "mv_loop"
  /\ UNCHANGED <<stop_flag, cursor, ck, log, prior, stop_in_call, plan, gh, nz>>

\* mv_loop without the test of the flag
mv_loop_no_break ==
  /\ pc = "mv_loop"
  /\ IF Cur.i > Len(Cur.path)
     THEN /\ moves' = SetCur([Cur EXCEPT !.fin = TRUE])
          /\ pc' = Cur.ret
     ELSE /\ moves' = moves
          /\ pc' = "mv_set"
  /\ UNCHANGED <<stop_flag, cursor, op, ck, log, prior, stop_in_call, plan, gh, nz>>

mv_loop_clears_flag ==
  /\ pc = "mv_loop"
  /\ IF Cur.i > Len(Cur.path)
     THEN /\ moves' = SetCur([Cur EXCEPT !.fin = TRUE])
          /\ pc' = Cur.ret
          /\ stop_flag' = stop_flag
     ELSE IF stop_flag
          THEN /\ moves' = SetCur([Cur EXCEPT !.brk = TRUE, !.fin = TRUE])
               /\ pc' = Cur.ret
               /\ stop_flag' = FALSE
          ELSE /\ moves' = moves
               /\ pc' = "mv_set"
               /\ stop_flag' = stop_flag
  /\ UNCHANGED <<cursor, op, ck, log, prior, stop_in_call, plan, gh, nz>>

\* mv_loop that waits for reset() while the flag is set
mv_loop_waits ==
  /\ pc = "mv_loop"
  /\ IF Cur.i > Len(Cur.path)
     THEN /\ moves' = SetCur([Cur EXCEPT !.fin = TRUE])
          /\ pc' = Cur.ret
     ELSE IF stop_flag
          THEN /\ moves' = moves
               /\ pc' = pc
          ELSE /\ moves' = moves
               /\ pc' = "mv_set"
  /\ UNCHANGED <<stop_flag, cursor, op, ck, log, prior, stop_in_call, plan, gh, nz>>

\* mv_loop whose break abandons the operation that called move_to
mv_loop_abort ==
  /\ pc = "mv_loop"
  /\ IF Cur.i > Len(Cur.path)
     THEN /\ moves' = SetCur([Cur EXCEPT !.fin = TRUE])
          /\ pc' = Cur.ret
     ELSE IF stop_flag
          THEN /\ moves' = SetCur([Cur EXCEPT !.brk = TRUE, !.fin = TRUE])
               /\ pc' = "done"
          ELSE /\ moves' = moves
               /\ pc' = "mv_set"
  /\ UNCHANGED <<stop_flag, cursor, op, ck, log, prior, stop_in_call, plan, gh, nz>>

\* for px, py in path: / if self._stop_flag: break
mv_loop ==
  /\ pc = "mv_loop"
  /\ IF Cur.i > Len(Cur.path)
     THEN /\ moves' = SetCur([Cur EXCEPT !.fin = TRUE])
          /\ pc' = Cur.ret
     ELSE IF stop_flag
          THEN /\ moves' = SetCur([Cur EXCEPT !.brk = TRUE, !.fin = TRUE])
               /\ pc' = Cur.ret
          ELSE /\ moves' = moves
               /\ pc' = "mv_set"
  /\ UNCHANGED <<stop_flag, cursor, op, ck, log, prior, stop_in_call, plan, gh, nz>>

\* self._set_pos(px, py): clamp, then SetCursorPos
set_pos(px, py) ==
  LET c == clamp(px, py)
  IN  /\ cursor' = c
      /\ log' = Append(log, SetCursorPos(c[1], c[2]))

mv_set ==
  /\ pc = "mv_set"
  /\ set_pos(Cur.path[Cur.i][1], Cur.path[Cur.i][2])
  /\ pc' = "mv_sleep"
  /\ gh' = IF gh.since >= 0 THEN [gh EXCEPT !.since = @ + 1] ELSE gh
  /\ UNCHANGED <<stop_flag, op, ck, moves, prior, stop_in_call, plan, nz>>

mv_sleep_next_set ==
  /\ pc = "mv_sleep"
  /\ log' = Append(log, sleep(Cur.num, Cur.den))
  /\ moves' = SetCur([Cur EXCEPT !.i = @ + 1])
  /\ pc' = IF Cur.i < Len(Cur.path) THEN "mv_set" ELSE "mv_loop"
  /\ UNCHANGED <<stop_flag, cursor, op, ck, prior, stop_in_call, plan, gh, nz>>

\* time.sleep(interval), interval = duration / steps
mv_sleep ==
  /\ pc = "mv_sleep"
  /\ log' = Append(log, sleep(Cur.num, Cur.den))
  /\ moves' = SetCur([Cur EXCEPT !.i = @ + 1])
  /\ pc' = "mv_loop"
  /\ UNCHANGED <<stop_flag, cursor, op, ck, prior, stop_in_call, plan, gh, nz>>

(***************************************************************************)
(* click and double_click.                                                 *)
(***************************************************************************)
click(x, y, button) ==
  /\ pc = "idle"
  /\ op' = Op("click", x, y, None, None, 0, FALSE, 0, button, 0)
  /\ ck' = [x |-> x, y |-> y, button |-> button, ret |-> "done"]
  /\ pc' = "click_if"
  /\ UNCHANGED <<stop_flag, cursor, moves, log, prior, stop_in_call, plan, gh, nz>>

\* if x is not None and y is not None: self.move_to(x, y)
click_if(offset) ==
  /\ pc = "click_if"
  /\ IF ck.x # None /\ ck.y # None
     THEN /\ moves' \in {Append(moves, m) : m \in NewMove(ck.x[1], ck.y[1], 500, TRUE, 60,
                                            offset, "click_map")}
          /\ pc' = "mv_loop"
     ELSE /\ moves' = moves
          /\ pc' = "click_map"
  /\ UNCHANGED <<stop_flag, cursor, op, ck, log, prior, stop_in_call, plan, gh, nz>>

\* click_map that returns without an error when the button is unknown
click_map_silent ==
  /\ pc = "click_map"
  /\ pc' = IF ck.button \in Buttons THEN "click_down" ELSE ck.ret
  /\ UNCHANGED <<stop_flag, cursor, op, ck, moves, log, prior, stop_in_call, plan, gh, nz>>

\* btn_down, btn_up = {...}[button]: a KeyError for any other button
click_map ==
  /\ pc = "click_map"
  /\ pc' = IF ck.button \in Buttons THEN "click_down" ELSE "KeyError"
  /\ UNCHANGED <<stop_flag, cursor, op, ck, moves, log, prior, stop_in_call, plan, gh, nz>>

click_down ==
  /\ pc = "click_down"
  /\ log' = Append(log, send_input(ButtonMap(ck.button)[1], 0))
  /\ pc' = "click_sleep"
  /\ UNCHANGED <<stop_flag, cursor, op, ck, moves, prior, stop_in_call, plan, gh, nz>>

click_sleep(ms) ==
  /\ pc = "click_sleep"
  /\ log' = Append(log, sleep(ms, 1))
  /\ pc' = "click_up"
  /\ UNCHANGED <<stop_flag, cursor, op, ck, moves, prior, stop_in_call, plan, gh, nz>>

\* click_up releasing the left button whatever was pressed
click_up_left ==
  /\ pc = "click_up"
  /\ log' = Append(log, send_input(MOUSEEVENTF_LEFTUP, 0))
  /\ pc' = ck.ret
  /\ UNCHANGED <<stop_flag, cursor, op, ck, moves, prior, stop_in_call, plan, gh, nz>>

click_up ==
  /\ pc = "click_up"
  /\ log' = Append(log, send_input(ButtonMap(ck.button)[2], 0))
  /\ pc' = ck.ret
  /\ UNCHANGED <<stop_flag, cursor, op, ck, moves, prior, stop_in_call, plan, gh, nz>>

double_click(x, y, button) ==
  /\ pc = "idle"
  /\ op' = Op("double_click", x, y, None, None, 0, FALSE, 0, button, 0)
  /\ ck' = [x |-> x, y |-> y, button |-> button, ret |-> "dbl_sleep"]
  /\ pc' = "click_if"
  /\ UNCHANGED <<stop_flag, cursor, moves, log, prior, stop_in_call, plan, gh, nz>>

\* dbl_sleep whose second click is given the point again
dbl_sleep_with_point(ms) ==
  /\ pc = "dbl_sleep"
  /\ log' = Append(log, sleep(ms, 1))
  /\ ck' = [x |-> op.x, y |-> op.y, button |-> op.button, ret |-> "done"]
  /\ pc' = "click_if"
  /\ UNCHANGED <<stop_flag, cursor, op, moves, prior, stop_in_call, plan, gh, nz>>

\* time.sleep(random.uniform(0.05, 0.15)), then self.click(button=button)
dbl_sleep(ms) ==
  /\ pc = "dbl_sleep"
  /\ log' = Append(log, sleep(ms, 1))
  /\ ck' = [x |-> None, y |-> None, button |-> op.button, ret |-> "done"]
  /\ pc' = "click_if"
  /\ UNCHANGED <<stop_flag, cursor, op, moves, prior, stop_in_call, plan, gh, nz>>

(***************************************************************************)
(* drag.                                                                   *)
(***************************************************************************)
\* self.move_to(x1, y1)
drag(x1, y1, x2, y2, durMs, button, offset) ==
  /\ pc = "idle"
  /\ op' = Op("drag", <<x1>>, <<y1>>, <<x2>>, <<y2>>, durMs, TRUE, 60, button, 0)
  /\ moves' \in {<<m>> : m \in NewMove(x1, y1, 500, TRUE, 60, offset, "drag_map")}
  /\ pc' = "mv_loop"
  /\ UNCHANGED <<stop_flag, cursor, ck, log, prior, stop_in_call, plan, gh, nz>>

\* btn_down, _ = {...}[button]
drag_map ==
  /\ pc = "drag_map"
  /\ pc' = IF op.button \in Buttons THEN "drag_down" ELSE "KeyError"
  /\ UNCHANGED <<stop_flag, cursor, op, ck, moves, log, prior, stop_in_call, plan, gh, nz>>

drag_down ==
  /\ pc = "drag_down"
  /\ log' = Append(log, send_input(ButtonMap(op.button)[1], 0))
  /\ pc' = "drag_sleep"
  /\ UNCHANGED <<stop_flag, cursor, op, ck, moves, prior, stop_in_call, plan, gh, nz>>

\* time.sleep(0.05)
drag_sleep ==
  /\ pc = "drag_sleep"
  /\ log' = Append(log, sleep(50, 1))
  /\ pc' = "drag_move"
  /\ UNCHANGED <<stop_flag, cursor, op, ck, moves, prior, stop_in_call, plan, gh, nz>>

\* drag_move that presses the button a second time
drag_move_presses(offset) ==
  /\ pc = "drag_move"
  /\ moves' \in {Append(moves, m) : m \in NewMove(op.x2[1], op.y2[1], op.dur, TRUE, 60,
                                    offset, "drag_up")}
  /\ log' = Append(log, send_input(ButtonMap(op.button)[1], 0))
  /\ pc' = "mv_loop"
  /\ UNCHANGED <<stop_flag, cursor, op, ck, prior, stop_in_call, plan, gh, nz>>

\* self.move_to(x2, y2, duration)
drag_move(offset) ==
  /\ pc = "drag_move"
  /\ moves' \in {Append(moves, m) : m \in NewMove(op.x2[1], op.y2[1], op.dur, TRUE, 60,
                                    offset, "drag_up")}
  /\ pc' = "mv_loop"
  /\ UNCHANGED <<stop_flag, cursor, op, ck, log, prior, stop_in_call, plan, gh, nz>>

\* self._send_input(MOUSEEVENTF_LEFTUP)
drag_up ==
  /\ pc = "drag_up"
  /\ log' = Append(log, send_input(MOUSEEVENTF_LEFTUP, 0))
  /\ pc' = "done"
  /\ UNCHANGED <<stop_flag, cursor, op, ck, moves, prior, stop_in_call, plan, gh, nz>>

(***************************************************************************)
(* scroll, left_down, left_up.                                             *)
(***************************************************************************)
\* scroll that passes the number of clicks as the wheel data
scroll_unscaled(clicks) ==
  /\ pc = "idle"
  /\ op' = Op("scroll", None, None, None, None, 0, FALSE, 0, "left", clicks)
  /\ log' = Append(log, send_input(MOUSEEVENTF_WHEEL, clicks))
  /\ pc' = "done"
  /\ UNCHANGED <<stop_flag, cursor, ck, moves, prior, stop_in_call, plan, gh, nz>>

scroll(clicks) ==
  /\ pc = "idle"
  /\ op' = Op("scroll", None, None, None, None, 0, FALSE, 0, "left", clicks)
  /\ log' = Append(log, send_input(MOUSEEVENTF_WHEEL, clicks * 120))
  /\ pc' = "done"
  /\ UNCHANGED <<stop_flag, cursor, ck, moves, prior, stop_in_call, plan, gh, nz>>

left_down ==
  /\ pc = "idle"
  /\ op' = Op("left_down", None, None, None, None, 0, FALSE, 0, "left", 0)
  /\ log' = Append(log, mouse_event(MOUSEEVENTF_LEFTDOWN))
  /\ pc' = "done"
  /\ UNCHANGED <<stop_flag, cursor, ck, moves, prior, stop_in_call, plan, gh, nz>>

left_up ==
  /\ pc = "idle"
  /\ op' = Op("left_up", None, None, None, None, 0, FALSE, 0, "left", 0)
  /\ log' = Append(log, mouse_event(MOUSEEVENTF_LEFTUP))
  /\ pc' = "done"
  /\ UNCHANGED <<stop_flag, cursor, ck, moves, prior, stop_in_call, plan, gh, nz>>

(***************************************************************************)
(* The controller: one public call from an idle controller, with stop()    *)
(* and reset() arriving at any moment before, during and after it.  What   *)
(* one call leaves to the next is the flag and the cursor; Init and the    *)
(* stop/reset steps taken while idle cover the values they can have.       *)
(***************************************************************************)
Next ==
  \/ stop
  \/ reset
  \/ \E p \in Points, d \in MoveDurs, f \in FpsArgs :
        \/ move_to(p[1], p[2], d, FALSE, f, 0)
        \/ \E o \in Offsets : move_to(p[1], p[2], d, TRUE, f, o)
  \/ mv_loop
  \/ mv_set
  \/ mv_sleep
  \/ \E a \in ClickArgs, b \in ButtonArgs : click(a[1], a[2], b)
  \/ \E o \in Offsets : click_if(o)
  \/ click_map
  \/ click_down
  \/ \E ms \in ClickSleeps : click_sleep(ms)
  \/ click_up
  \/ \E a \in ClickArgs, b \in ButtonArgs : double_click(a[1], a[2], b)
  \/ \E ms \in DoubleSleeps : dbl_sleep(ms)
  \/ \E p \in DragFrom, q \in Points, d \in DragDurs, b \in ButtonArgs, o \in Offsets :
        drag(p[1], p[2], q[1], q[2], d, b, o)
  \/ drag_map
  \/ drag_down
  \/ drag_sleep
  \/ \E o \in Offsets : drag_move(o)
  \/ drag_up
  \/ \E c \in ScrollArgs : scroll(c)
  \/ left_down
  \/ left_up

Spec == Init /\ [][Next]_vars

(***************************************************************************)
(* move_to alone, with its scheduling: the thread that called move_to      *)
(* keeps running (time.sleep returns after the interval), so a step of     *)
(* the loop that is possible is eventually taken.  The thread that calls   *)
(* stop() and reset() may run at any time or never.                        *)
(***************************************************************************)
MoveStep ==
  \/ mv_loop
  \/ mv_set
  \/ mv_sleep

NextMove ==
  \/ stop
  \/ reset
  \/ \E p \in Points, d \in MoveDurs, f \in FpsArgs :
        \/ move_to(p[1], p[2], d, FALSE, f, 0)
        \/ \E o \in Offsets : move_to(p[1], p[2], d, TRUE, f, o)
  \/ MoveStep

SpecMove == Init /\ [][NextMove]_vars /\ WF_vars(MoveStep)

(***************************************************************************)
(* The planners as pure functions: the inputs are drawn by the initial     *)
(* state; plan_linear applies the list comprehension of move_to,           *)
(* plan_human computes the waypoints of _human_path one by one, each with  *)
(* a noise value drawn from [0, 1) in place of _perlin's, and              *)
(* plan_human_perlin with the value of _perlin.                            *)
(***************************************************************************)
PlanPoints == {<<0, 0>>, <<100, 50>>, <<-7, 13>>}

\* random.randint(-30, 30)
MaxOffset == 30

\* noise values in [0, 1), numerators over NoiseDen
NoiseSamples ==
  {0, 125000000, 250000000, 375000000, 500000000, 749900000, 750000000,
   999999999}

InitPlan ==
  /\ stop_flag = FALSE
  /\ cursor = <<0, 0>>
  /\ pc = "off"
  /\ op = NoOp
  /\ ck = NoClick
  /\ moves = <<>>
  /\ log = <<>>
  /\ prior = "none"
  /\ stop_in_call = FALSE
  /\ gh = NoFlagCalls
  /\ nz = NoNoise
  /\ \E s \in PlanPoints, e \in PlanPoints, n \in 1..MaxPlanSteps :
        \/ plan = [NoPlan EXCEPT !.phase = "linear", !.start = s, !.end = e,
                                 !.steps = n]
        \/ \E o \in (-MaxOffset)..MaxOffset :
             plan = [NoPlan EXCEPT !.phase = "human", !.start = s, !.end = e,
                                   !.steps = n, !.human = TRUE, !.offset = o]

plan_linear ==
  /\ plan.phase = "linear"
  /\ plan' = [plan EXCEPT !.phase = "done",
                          !.path = linear_path(plan.start, plan.end, plan.steps)]
  /\ UNCHANGED <<stop_flag, cursor, pc, op, ck, moves, log, prior, stop_in_call, gh, nz>>

\* the body of the loop of _human_path for i = plan.i, the noise given
plan_point(noise) ==
  /\ plan.phase = "human"
  /\ plan.i <= plan.steps
  /\ \E w \in human_point(plan.start, plan.end, plan.steps, plan.offset,
                           plan.i, noise) :
        plan' = [plan EXCEPT !.i = @ + 1, !.point = w]
  /\ UNCHANGED <<stop_flag, cursor, pc, op, ck, moves, log, prior, stop_in_call, gh, nz>>

\* the body of the loop with _perlin returning the float noise / NoiseDen
plan_human(noise) == plan_point(<<noise, noise>>)

\* the body of the loop with the noise _perlin(t * 100)
plan_human_perlin == plan_point(noise_of(plan.i, plan.steps))

NextPlan ==
  \/ plan_linear
  \/ \E n \in NoiseSamples : plan_human(n)
  \/ plan_human_perlin

SpecPlan == InitPlan /\ [][NextPlan]_vars

(***************************************************************************)
(* The noise function on its own: _perlin(x) called twice with one         *)
(* argument.  The argument is either one the table holds (x = t * 100,     *)
(* t = i / steps, given as <<"table", i, steps>>) or a power of two close  *)
(* to zero, x = sg * 2^-e (<<"tiny", sg, e>>), where the value is decided  *)
(* by the rounding of the float operations: sin(y) = y and the products    *)
(* are far below 1, so the remainder of a positive product is the product  *)
(* itself (0 in units of 1/NoiseDen), and the remainder of a negative      *)
(* product -d is the double nearest to 1.0 - d.                            *)
(***************************************************************************)
TinyExps == 70..76

NoiseArgs ==
  {<<"table", i, 30>> : i \in 0..30}
    \cup {<<"table", i, 7>> : i \in 0..7}
    \cup {<<"tiny", sg, e>> : sg \in {-1, 1}, e \in TinyExps}

\* the doubles just below 1.0 are 1 - k * 2^-53: the k of the double nearest
\* to 1.0 - 12.99 * 43760 * 2^-e (ties to the even k), 70 <= e < 84
ulps_below_one(e) ==
  LET n == 1299 * 4376
      d == 10 * (2 ^ (e - 53))
      q == n \div d
      r == n % d
  IN  IF 2 * r > d THEN q + 1
      ELSE IF 2 * r = d THEN q + (q % 2)
      ELSE q

perlin_tiny(sg, e) ==
  IF sg > 0 THEN 0
  ELSE IF ulps_below_one(e) = 0 THEN NoiseDen
  ELSE NoiseDen - 1

perlin_at(arg) ==
  IF arg[1] = "table" THEN perlin(arg[2], arg[3])
  ELSE perlin_tiny(arg[2], arg[3])

InitNoise ==
  /\ stop_flag = FALSE
  /\ cursor = <<0, 0>>
  /\ pc = "off"
  /\ op = NoOp
  /\ ck = NoClick
  /\ moves = <<>>
  /\ log = <<>>
  /\ prior = "none"
  /\ stop_in_call = FALSE
  /\ gh = NoFlagCalls
  /\ plan = NoPlan
  /\ \E a \in NoiseArgs : nz = [NoNoise EXCEPT !.phase = "arg", !.arg = a]

perlin_first ==
  /\ nz.phase = "arg"
  /\ nz' = [nz EXCEPT !.phase = "once", !.v1 = perlin_at(nz.arg)]
  /\ UNCHANGED <<stop_flag, cursor, pc, op, ck, moves, log, prior, stop_in_call, plan, gh>>

perlin_second ==
  /\ nz.phase = "once"
  /\ nz' = [nz EXCEPT !.phase = "twice", !.v2 = perlin_at(nz.arg)]
  /\ UNCHANGED <<stop_flag, cursor, pc, op, ck, moves, log, prior, stop_in_call, plan, gh>>

NextNoise ==
  \/ perlin_first
  \/ perlin_second

SpecNoise == InitNoise /\ [][NextNoise]_vars

(***************************************************************************)
(* Reading the log.                                                        *)
(***************************************************************************)
IsSet(e) == e.call = "SetCursorPos"

IsInput(e) == e.call = "SendInput"

IsEvent(e) == e.call \in {"SendInput", "mouse_event"}

Sets(l) == SelectSeq(l, IsSet)

Inputs(l) == SelectSeq(l, IsInput)

\* the position sets of the first k waypoints of the move m
Played(m, k) ==
  [j \in 1..k |-> LET c == clamp(m.path[j][1], m.path[j][2])
                  IN  SetCursorPos(c[1], c[2])]

\* the index of the first entry of l that satisfies Test, 0 when none does
First(l, Test(_)) ==
  IF \E j \in 1..Len(l) : Test(l[j])
  THEN CHOOSE j \in 1..Len(l) : Test(l[j]) /\ \A h \in 1..(j - 1) : ~Test(l[h])
  ELSE 0

IsDown(e) == IsInput(e) /\ e.a \in DownFlags

IsUp(e) == IsInput(e) /\ e.a \in UpFlags

(***************************************************************************)
(* C1: when the loop of move_to finds the flag set at the check of         *)
(* waypoint k+1 (k waypoints played), the move returns there: it goes to   *)
(* its return point without a further position set, it has performed      *)
(* exactly its first k position sets (for a move_to call: k in total), and *)
(* a move that has returned never plays another waypoint.                  *)
(***************************************************************************)
C1_InterruptStopsAtK ==
  [][ /\ (pc = "mv_loop" /\ stop_flag /\ Cur.i <= Len(Cur.path) /\ pc' # pc)
         => /\ pc' = Cur.ret
            /\ log' = log
            /\ cursor' = cursor
            /\ Len(moves') = Len(moves)
            /\ moves'[Len(moves)].fin
            /\ moves'[Len(moves)].i = Cur.i
            /\ op.name = "move_to" => Sets(log') = Played(Cur, Cur.i - 1)
      /\ \A j \in 1..Len(moves) :
            moves[j].fin => (Len(moves') >= j /\ moves'[j] = moves[j])
      /\ (pc' = "mv_set" \/ pc' = "mv_sleep") => ~moves'[Len(moves')].fin
    ]_vars

C1_Witness ==
  /\ pc = "done"
  /\ op.name = "move_to"
  /\ moves[1].brk
  /\ moves[1].i - 1 \in 1..(moves[1].steps - 1)
  /\ Len(Sets(log)) = moves[1].i - 1

(***************************************************************************)
(* C2: a move_to that begins after stop() then reset(), and during which   *)
(* stop() is not called, plays every one of its steps+1 waypoints, in path *)
(* order.                                                                  *)
(***************************************************************************)
C2_ResetAllowsCompletion ==
  (pc = "done" /\ op.name = "move_to" /\ prior = "stop_reset" /\ ~stop_in_call)
    => /\ Len(moves[1].path) = moves[1].steps + 1
       /\ ~moves[1].brk
       /\ Sets(log) = Played(moves[1], moves[1].steps + 1)

C2_Witness ==
  /\ pc = "done"
  /\ op.name = "move_to"
  /\ prior = "stop_reset"
  /\ ~stop_in_call
  /\ moves[1].steps = 30
  /\ Len(Sets(log)) = 31

(***************************************************************************)
(* C3: click() without a point, for each of the three buttons, delivers    *)
(* the button's down event then its up event, a sleep of 10 to 50 ms       *)
(* between them, and nothing else: no position set, no other event.        *)
(***************************************************************************)
C3_ClickNoPoint ==
  (op.name = "click" /\ (op.x = None \/ op.y = None) /\ op.button \in Buttons)
    => /\ Sets(log) = <<>>
       /\ pc = "done" =>
            /\ Len(log) = 3
            /\ log[1] = SendInput(ButtonMap(op.button)[1], <<0, 0>>)
            /\ log[2].call = "sleep" /\ log[2].b = 1 /\ log[2].a \in 10..50
            /\ log[3] = SendInput(ButtonMap(op.button)[2], <<0, 0>>)

C3_Witness ==
  /\ pc = "done"
  /\ op.name = "click"
  /\ op.x = None
  /\ op.y = None
  /\ op.button = "middle"
  /\ Len(log) = 3

(***************************************************************************)
(* C4: a drag that returns has delivered, in this order: the position sets *)
(* of the move to p1, one button-down of the requested button, the         *)
(* position sets of the move to p2, one button-up, which is the last entry *)
(* of the log.                                                             *)
(***************************************************************************)
C4_DragOrder ==
  (pc = "done" /\ op.name = "drag")
    => LET d == First(log, IsDown)
       IN  /\ Len(moves) = 2
           /\ Len(Inputs(log)) = 2
           /\ d > 0
           /\ log[d] = SendInput(ButtonMap(op.button)[1], <<0, 0>>)
           /\ IsUp(log[Len(log)])
           /\ Sets(SubSeq(log, 1, d - 1)) = Played(moves[1], moves[1].i - 1)
           /\ Sets(SubSeq(log, d + 1, Len(log))) = Played(moves[2], moves[2].i - 1)
           /\ moves[2].end = <<op.x2[1], op.y2[1]>>
           /\ moves[1].end = <<op.x[1], op.y[1]>>

C4_Witness ==
  /\ pc = "done"
  /\ op.name = "drag"
  /\ op.button = "right"
  /\ Len(moves) = 2
  /\ moves[1].i - 1 = 31
  /\ moves[2].i - 1 = 4
  /\ Len(Sets(log)) = 35

(***************************************************************************)
(* C5: the event a drag ends with is the up event of the button it         *)
(* pressed.                                                                *)
(***************************************************************************)
C5_DragReleasesPressedButton ==
  (pc = "done" /\ op.name = "drag")
    => log[Len(log)] = SendInput(ButtonMap(op.button)[2], <<0, 0>>)

(***************************************************************************)
(* C6: a double_click that returns has delivered down, up, down, up of the *)
(* requested button and no other event, and every position set of the     *)
(* call comes before the first button-down.                                *)
(***************************************************************************)
C6_DoubleClick ==
  (pc = "done" /\ op.name = "double_click")
    => LET dn == SendInput(ButtonMap(op.button)[1], <<0, 0>>)
           up == SendInput(ButtonMap(op.button)[2], <<0, 0>>)
           d  == First(log, IsDown)
       IN  /\ SelectSeq(log, IsEvent) = <<dn, up, dn, up>>
           /\ d > 0
           /\ Sets(SubSeq(log, d, Len(log))) = <<>>
           /\ Len(moves) <= 1

C6_Witness ==
  /\ pc = "done"
  /\ op.name = "double_click"
  /\ op.x # None
  /\ op.y # None
  /\ op.button = "right"
  /\ Len(Sets(log)) = 31

\* the wheel delta the system reads in mouseData <<high word, low word>>:
\* the 32 bits as a signed number
wheel_delta(d) ==
  IF d[1] >= Word \div 2 THEN (d[1] - Word) * Word + d[2]
  ELSE d[1] * Word + d[2]

(***************************************************************************)
(* C7: scroll(clicks) delivers one wheel event and nothing else, and the   *)
(* wheel delta delivered in its mouseData, a 32-bit field, is clicks * 120 *)
(* for positive and negative clicks: scroll(3) delivers 360 and scroll(-2) *)
(* delivers -240, as the 32 bits FFFFFF10 (65535 * 65536 + 65296).         *)
(***************************************************************************)
C7_WheelDelta ==
  (pc = "done" /\ op.name = "scroll")
    => /\ Len(log) = 1
       /\ log[1].call = "SendInput"
       /\ log[1].a = MOUSEEVENTF_WHEEL
       /\ log[1].b \in 0..(Word - 1)
       /\ log[1].c \in 0..(Word - 1)
       /\ wheel_delta(<<log[1].b, log[1].c>>) = op.clicks * 120
       /\ op.clicks = 3 => <<log[1].b, log[1].c>> = <<0, 360>>
       /\ op.clicks = -2 => <<log[1].b, log[1].c>> = <<65535, 65296>>

C7_Witness ==
  /\ pc = "done"
  /\ op.name = "scroll"
  /\ op.clicks = -2
  /\ Len(log) = 1
  /\ log[1].b = 65535

(***************************************************************************)
(* C8: the linear path has steps+1 waypoints, the first is start, the last *)
(* is end, and waypoint i is start + (end - start) * i / steps truncated   *)
(* toward zero on each axis: with v the exact value times steps, the       *)
(* waypoint w has |v - w*steps| < steps and |w*steps| <= |v|.  From (0,0)  *)
(* to (100,50) in 10 steps: 11 waypoints, waypoint 5 is (50,25).           *)
(***************************************************************************)
IsTruncation(w, num, den) ==
  /\ Abs(num - w * den) < den
  /\ Abs(w * den) <= Abs(num)

C8_LinearPath ==
  plan.phase = "done"
    => LET n == plan.steps
           s == plan.start
           e == plan.end
           P == plan.path
       IN  /\ Len(P) = n + 1
           /\ P[1] = s
           /\ P[n + 1] = e
           /\ \A i \in 0..n : \A ax \in 1..2 :
                IsTruncation(P[i + 1][ax], s[ax] * n + (e[ax] - s[ax]) * i, n)
           /\ (s = <<0, 0>> /\ e = <<100, 50>> /\ n = 10)
                => (Len(P) = 11 /\ P[6] = <<50, 25>>)

C8_Witness ==
  /\ plan.phase = "done"
  /\ plan.start = <<0, 0>>
  /\ plan.end = <<100, 50>>
  /\ plan.steps = 10
  /\ plan.path[6] = <<50, 25>>

(***************************************************************************)
(* C9: on each axis the linear path never moves away from end from one     *)
(* waypoint to the next, and every waypoint lies between start and end     *)
(* inclusive; negative coordinates included.                               *)
(***************************************************************************)
C9_LinearMonotonic ==
  plan.phase = "done"
    => LET s == plan.start
           e == plan.end
           P == plan.path
       IN  \A ax \in 1..2 :
             /\ \A k \in 1..Len(P) :
                  /\ Min(s[ax], e[ax]) <= P[k][ax]
                  /\ P[k][ax] <= Max(s[ax], e[ax])
             /\ \A k \in 1..(Len(P) - 1) :
                  /\ Abs(e[ax] - P[k + 1][ax]) <= Abs(e[ax] - P[k][ax])
                  /\ e[ax] >= s[ax] => P[k + 1][ax] >= P[k][ax]
                  /\ e[ax] <= s[ax] => P[k + 1][ax] <= P[k][ax]

\* a path that crosses zero downwards on x and upwards on y in steps that
\* do not divide the distances
C9_Witness ==
  /\ plan.phase = "done"
  /\ plan.start = <<100, 50>>
  /\ plan.end = <<-7, 13>>
  /\ plan.steps = 9
  /\ \E k \in 1..9 : plan.path[k][1] > 0 /\ plan.path[k + 1][1] < 0

(***************************************************************************)
(* C10: in human-like planning with start = end, every waypoint of the     *)
(* path is within 2 pixels of start on each axis, whatever the steps, the  *)
(* offset and the noise.                                                   *)
(***************************************************************************)
C10_HumanStaysWithin2 ==
  (plan.phase = "human" /\ plan.i >= 1 /\ plan.start = plan.end)
    => \A ax \in 1..2 : Abs(plan.point[ax] - plan.start[ax]) <= 2

(***************************************************************************)
(* C11: a human-like path has steps+1 waypoints, its first waypoint is     *)
(* start, its last waypoint is within 1 of end on each axis, and a         *)
(* human-like move_to that played all its waypoints made its last position *)
(* set at the clamped target.                                              *)
(***************************************************************************)
C11_HumanPathEndpoints ==
  \A j \in 1..Len(moves) :
    moves[j].human
      => LET m == moves[j]
             t == clamp(m.end[1], m.end[2])
         IN  /\ Len(m.path) = m.steps + 1
             /\ m.path[1] = m.start
             /\ \A ax \in 1..2 : Abs(m.path[m.steps + 1][ax] - m.end[ax]) <= 1
             /\ (op.name = "move_to" /\ pc = "done" /\ ~m.brk)
                  => (log[Len(log) - 1] = SetCursorPos(t[1], t[2]) /\ cursor = t)

(***************************************************************************)
(* C12: the time a move_to call sleeps in total, the number of its         *)
(* per-waypoint sleeps times interval = duration / steps, is at most       *)
(* duration: sleeps * duration <= duration * steps.                        *)
(***************************************************************************)
IsSleep(e) == e.call = "sleep"

C12_SleepWithinDuration ==
  op.name = "move_to"
    => LET sl == SelectSeq(log, IsSleep)
       IN  /\ \A k \in 1..Len(sl) : sl[k].a = op.dur /\ sl[k].b = moves[1].steps
           /\ Len(sl) * op.dur <= op.dur * moves[1].steps

\* C13: two calls of the noise function with one argument return one
\* value, and the value v satisfies 0 <= v < 1 (in units of 1/NoiseDen).
C13_NoiseDeterministicBounded ==
  nz.phase = "twice"
    => /\ nz.v1 = nz.v2
       /\ 0 <= nz.v1
       /\ nz.v1 < NoiseDen

\* C14: after stop() is called while a call is running, the moves of that
\* call make at most one further position set (until reset() is called), and
\* every position set that was made is followed by the sleep of its step: the
\* next thing the call does after SetCursorPos is time.sleep.
C14_StopAtWaypointBoundary ==
  /\ gh.since <= 1
  /\ (stop_flag /\ gh.since = 1) => pc # "mv_set"
  /\ \A k \in 1..Len(log) :
       IsSet(log[k])
         => IF k < Len(log) THEN IsSleep(log[k + 1]) ELSE pc = "mv_sleep"

\* a move_to that was stopped between the check and the set of a waypoint:
\* it made that one set, slept, and returned at the next check
C14_Witness ==
  /\ op.name = "move_to"
  /\ pc = "done"
  /\ stop_flag
  /\ gh.since = 1
  /\ moves[1].brk
  /\ Len(Sets(log)) >= 2
  /\ IsSleep(log[Len(log)])

\* C15: the interrupt flag is false at construction; a step that makes it
\* true is a step of stop() and a step that makes it false is a step of
\* reset(), so no step of move_to, click, double_click, drag, scroll,
\* left_down or left_up changes it (a move that broke off included); and a
\* call made after stop(), with no reset() before or during it, makes no
\* position set at all.
C15_FlagLifecycle ==
  /\ ~stop_flag
  /\ [][/\ (stop_flag' /\ ~stop_flag) => stop
        /\ (~stop_flag' /\ stop_flag) => reset]_vars
  /\ []((prior = "stop" /\ ~gh.resets) => Sets(log) = <<>>)

\* a move_to made after stop() has returned at its first check, the flag
\* still set
C15_Witness ==
  /\ prior = "stop"
  /\ ~gh.resets
  /\ op.name = "move_to"
  /\ pc = "done"
  /\ moves[1].brk
  /\ Len(moves[1].path) >= 2
  /\ log = <<>>
  /\ stop_flag

\* the coordinate v of a waypoint, bounded to 0..(dim - 1) on its own
AxisClamped(v, out, dim) ==
  /\ (v < 0) => out = 0
  /\ (v > dim - 1) => out = dim - 1
  /\ (0 <= v /\ v <= dim - 1) => out = v

\* C16: every pair handed to SetCursorPos, in every operation, satisfies
\* 0 <= x <= width - 1 and 0 <= y <= height - 1, and each step that sets the
\* position hands over the waypoint it plays with each axis bounded on its
\* own: an axis inside the screen is passed as it is whatever the other is.
C16_SetsInsideScreen ==
  /\ [](\A k \in 1..Len(log) :
          IsSet(log[k]) => /\ 0 <= log[k].a /\ log[k].a <= ScreenW - 1
                           /\ 0 <= log[k].b /\ log[k].b <= ScreenH - 1)
  /\ [][(Len(log') = Len(log) + 1 /\ IsSet(log'[Len(log')]))
          => LET w == Cur.path[Cur.i]
                 e == log'[Len(log')]
             IN  /\ AxisClamped(w[1], e.a, ScreenW)
                 /\ AxisClamped(w[2], e.b, ScreenH)
                 /\ cursor' = <<e.a, e.b>>]_vars

\* a human-like waypoint outside the screen on the y axis only has just
\* been set: y is bounded, x is passed as planned
C16_Witness ==
  /\ pc = "mv_sleep"
  /\ Cur.human
  /\ Cur.path[Cur.i][2] < 0
  /\ Cur.path[Cur.i][1] > 0
  /\ Cur.path[Cur.i][1] < ScreenW - 1
  /\ log[Len(log)] = SetCursorPos(Cur.path[Cur.i][1], 0)
  /\ \E k \in 1..Len(log) : log[k] = SetCursorPos(0, 0) /\ k < Len(log)

\* C17: for every duration >= 0 (in ms) and every integer fps, zero and
\* negative included, the step count of move_to is 1 when duration * fps < 1
\* and otherwise the whole number n with n <= duration * fps < n + 1; so it
\* is at least 1, the interval duration / steps has a non-zero divisor, the
\* path has steps + 1 >= 2 waypoints, and the call ends in no error.
C17_StepsAtLeastOne ==
  /\ \A j \in 1..Len(moves) :
       /\ moves[j].steps >= 1
       /\ moves[j].den = moves[j].steps
       /\ Len(moves[j].path) = moves[j].steps + 1
       /\ Len(moves[j].path) >= 2
  /\ op.name = "move_to"
       => /\ pc \in {"mv_loop", "mv_set", "mv_sleep", "done"}
          /\ Len(moves) = 1
          /\ op.dur >= 0
          /\ LET p == op.dur * op.fps
                 n == moves[1].steps
             IN  IF p < 1000 THEN n = 1
                 ELSE n * 1000 <= p /\ p < (n + 1) * 1000

\* move_to with duration 0 and fps 0 has played its two waypoints
C17_Witness ==
  /\ op.name = "move_to"
  /\ op.dur = 0
  /\ op.fps = 0
  /\ pc = "done"
  /\ moves[1].steps = 1
  /\ moves[1].fin
  /\ ~moves[1].brk
  /\ Len(Sets(log)) = 2
  /\ log[Len(log)] = sleep(0, 1)

\* C18: every move_to that was called returns, interrupted or not and
\* whatever stop() and reset() do meanwhile, and it makes at most steps + 1
\* position sets.
C18_MoveToTerminates ==
  /\ (op.name = "move_to") ~> (pc = "done" /\ moves[1].fin)
  /\ [](op.name = "move_to" => Len(Sets(log)) <= moves[1].steps + 1)

\* a move_to that was stopped and reset while it ran has returned after all
\* of its 31 waypoints
C18_Witness ==
  /\ op.name = "move_to"
  /\ pc = "done"
  /\ stop_in_call
  /\ gh.resets
  /\ moves[1].fin
  /\ ~moves[1].brk
  /\ moves[1].steps = 30
  /\ Len(Sets(log)) = 31

IsPrefix(s, t) == Len(s) <= Len(t) /\ \A k \in 1..Len(s) : s[k] = t[k]

\* the button events of the call o when nothing interrupts it: click presses
\* and releases the button, double_click does so twice, drag presses the
\* button and injects the release that line 160 names
UninterruptedEvents(o) ==
  LET b == ButtonMap(o.button)
      press == send_input(b[1], 0)
      release == send_input(b[2], 0)
  IN  CASE o.name = "click" -> <<press, release>>
        [] o.name = "double_click" -> <<press, release, press, release>>
        [] o.name = "drag" -> <<press, send_input(MOUSEEVENTF_LEFTUP, 0)>>

\* C19: whatever stop() and reset() do before and during click,
\* double_click or drag, the events the call has injected are a prefix of
\* the events of the uninterrupted call, and all of them when it returns.
C19_EventsNotSuppressed ==
  (op.name \in {"click", "double_click", "drag"} /\ op.button \in Buttons)
    => /\ IsPrefix(SelectSeq(log, IsEvent), UninterruptedEvents(op))
       /\ pc = "done" => SelectSeq(log, IsEvent) = UninterruptedEvents(op)

\* a click at a point, called with the flag set: no position was set, the
\* button was pressed and released
C19_Witness ==
  /\ op.name = "click"
  /\ op.x # None
  /\ op.y # None
  /\ op.button = "right"
  /\ prior = "stop"
  /\ stop_flag
  /\ pc = "done"
  /\ moves[1].brk
  /\ Sets(log) = <<>>
  /\ Len(SelectSeq(log, IsEvent)) = 2

\* C20: click, double_click and drag called with a button that is not
\* left, right or middle never inject an event and never return normally:
\* they are in the move that precedes the lookup of the button, or at the
\* lookup, or have failed with KeyError, and then that move (the only one)
\* has been played to its end or to its break.  The step that fails leaves
\* the interrupt flag as it was.
C20_InvalidButtonFailsFirst ==
  /\ []((op.name \in {"click", "double_click", "drag"} /\ op.button \notin Buttons)
          => /\ SelectSeq(log, IsEvent) = <<>>
             /\ pc \in {"click_if", "mv_loop", "mv_set", "mv_sleep", "click_map",
                        "drag_map", "KeyError"}
             /\ pc = "KeyError"
                  => /\ Len(moves) <= 1
                     /\ \A j \in 1..Len(moves) : moves[j].fin
                     /\ (op.name = "drag" \/ (op.x # None /\ op.y # None))
                          => Len(moves) = 1
                     /\ (Len(moves) = 1 /\ ~moves[1].brk)
                          => Sets(log) = Played(moves[1], Len(moves[1].path)))
  /\ [][(pc' = "KeyError" /\ pc # "KeyError")
          => (stop_flag' = stop_flag /\ log' = log /\ cursor' = cursor)]_vars

\* drag with button "x1" has failed after its first move, all 31 waypoints
\* of it set, no event injected
C20_Witness ==
  /\ pc = "KeyError"
  /\ op.name = "drag"
  /\ op.button = "x1"
  /\ Len(moves) = 1
  /\ moves[1].fin
  /\ ~moves[1].brk
  /\ Len(Sets(log)) = 31
  /\ SelectSeq(log, IsEvent) = <<>>
  /\ ~stop_flag

====
